---- MODULE Spec2Model ----
(***************************************************************************)
(* Model of the sage-points indexer (src/src/main.rs, src/src/db.rs).      *)
(*                                                                         *)
(* One writer task (run_monitoring) reads the logs of a staking contract   *)
(* from a chain, keeps the positions in three in-memory maps               *)
(* (PointsTracker) and writes positions, events and the sync cursor to the *)
(* Store with independent, auto-committed SQL statements.  The process may *)
(* be killed and started again at any suspension point.                    *)
(*                                                                         *)
(* Not modelled: PointsTracker.total_events_processed and                  *)
(* PointsTracker.current_block (diagnostics only, read by                  *)
(* display_points_summary), and all console output.                        *)
(***************************************************************************)
EXTENDS Integers, Sequences, FiniteSets, TLC

(***************************************************************************)
(* Bounds of the model.                                                    *)
(***************************************************************************)
\* highest block the chain grows to (the chain starts at block 0)
MaxBlock == 3
\* how many times the process is killed and started again
MaxRestarts == 1
\* how many RPC calls / Store writes fail (rate-limit retries are not counted)
MaxFaults == 1
\* how many logs the contract emits under SpecSM
MaxEvents == 4
\* how many blocks the chain runs ahead of the indexer under SpecSM (the
\* longest batch of the tail loop)
MaxPending == 2
\* how many positions (nonces) the first account holds under SpecPts
MaxPtsNonce == 2
\* how many rows the events table holds under SpecEv
MaxEvRows == 3

(***************************************************************************)
(* Program constants.                                                      *)
(***************************************************************************)
\* main.rs:31 MAX_BLOCK_RANGE (500 in the source; scaled down so that a chain
\* of MaxBlock blocks needs more than one backfill range)
MAX_BLOCK_RANGE == 1
\* main.rs:340 DEPLOYMENT_BLOCK (environment variable; the backfill floor):
\* the contract is deployed in block 0, which holds no log of it
DEPLOYMENT_BLOCK == 0
\* main.rs:451 the number of rate-limit retries of one range
MAX_RETRIES == 3

\* main.rs:781, db.rs:255 wei per token (10^18 in the source; scaled down to
\* keep the products within TLC's integers)
WEI_PER_TOKEN == 10
\* main.rs:172, db.rs:270 seconds per day (86400 in the source; scaled down,
\* so that consecutive blocks of the model are one day apart)
SECONDS_PER_DAY == 10
\* the unit of the two rates below: 1/10000 point per token per day
RATE_SCALE == 10000
\* main.rs:180, db.rs:273 0.01 SAGE points per token per day
SAGE_RATE == 100
\* main.rs:181, db.rs:274 0.005 Formation points per token per day
FORMATION_RATE == 50

\* api.rs:47, 73 the length of an address string (42 in the source: "0x" and
\* 40 digits; an address of the model has 2 digits)
ADDRESS_LEN == 4
\* api.rs:96 the leaderboard limit when the request gives none
DEFAULT_LIMIT == 10
\* api.rs:96 the highest leaderboard limit served
MAX_LIMIT == 100

\* Option<T>: None is the empty sequence, Some(x) the one-element sequence
None == <<>>
Some(x) == <<x>>
IsSome(o) == o # <<>>
Unwrap(o) == o[1]

\* accounts (alloy Address values, written as lowercase hex) and nonces
Users == {"0xab", "0xcd"}
Nonces == {1}
Keys == Users \X Nonces
\* amounts in wei (scaled)
Amounts == {1, 2}
\* the keys and amounts of the logs of the modelled chain
ChainKeys == {<<"0xab", 1>>}
ChainAmounts == {1}
EventTypes == {"Deposit", "InitiateWithdraw", "Withdraw", "RestakeFromWithdrawalInitiated"}

\* the timestamp a log of block b carries in its payload
BlockTime(b) == 100 + (10 * b)

(***************************************************************************)
(* Address <-> text.  Address::to_string() (db.rs:164, db.rs:187) prints   *)
(* the EIP-55 checksummed, mixed-case form; Address::from_str (db.rs:107)  *)
(* parses hex of either case.                                              *)
(***************************************************************************)
AddressToString(a) ==
    CASE a = "0xab" -> "0xAb"
      [] a = "0xcd" -> "0xcD"

AddressFromStr(s) ==
    CASE s \in {"0xab", "0xAb", "0xAB", "0xaB"} -> "0xab"
      [] s \in {"0xcd", "0xCd", "0xCD", "0xcD"} -> "0xcd"

\* PositionStatus <-> the position_status text of the positions table
StatusToStr(st) ==
    CASE st = "Active" -> "active"
      [] st = "Unstaking" -> "unstaking"
      [] st = "Withdrawn" -> "withdrawn"

StatusFromStr(s) ==
    CASE s = "active" -> "Active"
      [] s = "unstaking" -> "Unstaking"
      [] s = "withdrawn" -> "Withdrawn"
      [] OTHER -> "Active"

(***************************************************************************)
(* Maps (HashMap) as functions whose domain is the set of present keys.    *)
(***************************************************************************)
EmptyMap == [k \in {} |-> None]
MapInsert(m, k, v) == [x \in (DOMAIN m) \cup {k} |-> IF x = k THEN v ELSE m[x]]
MapRemove(m, k) == [x \in (DOMAIN m) \ {k} |-> m[x]]

VARIABLES
    \* ---- the chain (environment)
    head,                \* current chain head block number
    chain,               \* the contract's logs, in chain order
    \* ---- the Store (PostgreSQL tables)
    dbPositions,         \* positions: (user_address, nonce) -> row
    dbEvents,            \* events: rows in insertion (id) order
    dbCursor,            \* sync_metadata 'last_processed_block': None or Some(block)
    \* ---- PointsTracker (in memory, owned by run_monitoring)
    active_positions,
    unstaking_positions,
    withdrawn_positions,
    \* ---- run_monitoring: position in the code and local variables
    pc,                  \* "boot", "backfill", "position", "event", "commit", "tail", "dead"
    mode,                \* "backfill" or "tail": the loop the current batch belongs to
    current_block,       \* the head read at bootstrap, the end of the backfill loop
    last_block,
    from_block,
    to_block,
    retry_count,
    logs,                \* the logs of the current batch not handled yet
    \* ---- bookkeeping of the environment
    restarts,            \* process restarts so far
    faults,              \* failed RPC calls / Store writes so far
    \* ---- history (not program state)
    handled,             \* ids of the logs handle_log was ever called with
    batchPre,            \* the Store's content when the current batch started
    batchFailed,         \* a position/event write of the current batch failed
    crashedInBatch,      \* the last restart killed the process inside a batch
    preRestart,          \* tracker maps when the process was last killed
    last,                \* what the last handle_log step did, or the error of
                         \* the last failed log query of the backfill
    \* ---- the read side
    reply                \* the last points answer computed: None or Some(answer)

chainVars == <<head, chain>>
dbVars == <<dbPositions, dbEvents, dbCursor>>
trackerVars == <<active_positions, unstaking_positions, withdrawn_positions>>
localVars == <<mode, current_block, last_block, from_block, to_block, retry_count, logs>>
envVars == <<restarts, faults>>
histVars == <<handled, batchPre, batchFailed, crashedInBatch, preRestart, last>>
vars == <<chainVars, dbVars, trackerVars, pc, localVars, envVars, histVars, reply>>

Min(a, b) == IF a < b THEN a ELSE b

\* the whole content of the Store
DbState == [positions |-> dbPositions, events |-> dbEvents, cursor |-> dbCursor]
\* tracker maps as one value
TrackerState == [active |-> active_positions, unstaking |-> unstaking_positions,
                 withdrawn |-> withdrawn_positions]


(***************************************************************************)
(* Store (db.rs).                                                          *)
(***************************************************************************)
\* the primary key of the positions table for a tracker key
DbKey(key) == <<AddressToString(key[1]), key[2]>>

\* db.rs:141-175 save_position: the row bound to the INSERT .. ON CONFLICT
PositionRow(p) ==
    [user_address |-> AddressToString(p.user),
     nonce |-> p.nonce,
     amount |-> p.amount,
     deposit_timestamp |-> p.deposit_timestamp,
     status |-> StatusToStr(p.status),
     withdrawal_initiated_timestamp |-> p.withdrawal_initiated_timestamp,
     block_number |-> p.block_number]

\* db.rs:150-163 upsert on (user_address, nonce): every column is replaced
SavePosition(positions, p) ==
    MapInsert(positions, <<AddressToString(p.user), p.nonce>>, PositionRow(p))

\* db.rs:96-122 one row of the positions table as a Position
PositionOfRow(row) ==
    [user |-> AddressFromStr(row.user_address),
     nonce |-> row.nonce,
     amount |-> row.amount,
     deposit_timestamp |-> row.deposit_timestamp,
     status |-> StatusFromStr(row.status),
     withdrawal_initiated_timestamp |-> row.withdrawal_initiated_timestamp,
     block_number |-> row.block_number]

\* db.rs:79-138 load_positions: the rows of one status, keyed by (address, nonce)
LoadPositions(positions, statusStr) ==
    LET rows == {positions[k] : k \in {x \in DOMAIN positions : positions[x].status = statusStr}}
    IN [key \in {<<AddressFromStr(r.user_address), r.nonce>> : r \in rows} |->
            PositionOfRow(CHOOSE r \in rows :
                <<AddressFromStr(r.user_address), r.nonce>> = key)]

\* the EventData handle_log passes to save_event (main.rs:578-586 and alike)
EventDataOf(log) ==
    [event_type |-> log.type,
     user |-> log.user,
     nonce |-> Some(log.nonce),
     amount |-> IF log.type = "InitiateWithdraw" THEN None ELSE Some(log.amount),
     block_number |-> log.block,
     tx_hash |-> log.id,
     timestamp |-> log.timestamp]

\* save_event that stores nothing
SaveEventDropping(events, e) == events

\* db.rs:178-197 save_event: a plain INSERT, the id is the next serial number
SaveEvent(events, e) ==
    Append(events,
        [id |-> Len(events) + 1,
         event_type |-> e.event_type,
         user_address |-> AddressToString(e.user),
         nonce |-> e.nonce,
         amount |-> e.amount,
         block_number |-> e.block_number,
         transaction_hash |-> e.tx_hash,
         timestamp |-> e.timestamp])

\* db.rs:200-213 get_last_processed_block
GetLastProcessedBlock(cursor) == cursor

\* db.rs:216-228 update_last_processed_block: unconditional upsert of the value
UpdateLastProcessedBlock(cursor, block) == Some(block)

(***************************************************************************)
(* PointsTracker (main.rs:61-153).  A tracker value t is a record of the   *)
(* three maps; the operators return the new maps and, in saved, the        *)
(* position passed to save_position (None when nothing is written).        *)
(***************************************************************************)
\* main.rs:89-93 get_position
GetPosition(t, key) ==
    IF key \in DOMAIN t.active THEN Some(t.active[key])
    ELSE IF key \in DOMAIN t.unstaking THEN Some(t.unstaking[key])
    ELSE IF key \in DOMAIN t.withdrawn THEN Some(t.withdrawn[key])
    ELSE None

\* move_to_unstaking that stamps the position's own deposit time instead of
\* the event's timestamp
MoveToUnstakingWrongTime(t, key, timestamp) ==
    IF key \in DOMAIN t.active
    THEN LET position == [t.active[key] EXCEPT
                            !.status = "Unstaking",
                            !.withdrawal_initiated_timestamp =
                                Some(t.active[key].deposit_timestamp)]
         IN [active |-> MapRemove(t.active, key),
             unstaking |-> MapInsert(t.unstaking, key, position),
             withdrawn |-> t.withdrawn,
             saved |-> Some(position)]
    ELSE [active |-> t.active, unstaking |-> t.unstaking, withdrawn |-> t.withdrawn,
          saved |-> None]

\* main.rs:96-110 move_to_unstaking
MoveToUnstaking(t, key, timestamp) ==
    IF key \in DOMAIN t.active
    THEN LET position == [t.active[key] EXCEPT
                            !.status = "Unstaking",
                            !.withdrawal_initiated_timestamp = Some(timestamp)]
         IN [active |-> MapRemove(t.active, key),
             unstaking |-> MapInsert(t.unstaking, key, position),
             withdrawn |-> t.withdrawn,
             saved |-> Some(position)]
    ELSE [active |-> t.active, unstaking |-> t.unstaking, withdrawn |-> t.withdrawn,
          saved |-> None]

\* move_to_withdrawn that also clears the withdrawal timestamp
MoveToWithdrawnClearingTime(t, key) ==
    IF key \in DOMAIN t.unstaking
    THEN LET position == [t.unstaking[key] EXCEPT
                            !.status = "Withdrawn",
                            !.withdrawal_initiated_timestamp = None]
         IN [active |-> t.active,
             unstaking |-> MapRemove(t.unstaking, key),
             withdrawn |-> MapInsert(t.withdrawn, key, position),
             saved |-> Some(position)]
    ELSE [active |-> t.active, unstaking |-> t.unstaking, withdrawn |-> t.withdrawn,
          saved |-> None]

\* main.rs:112-125 move_to_withdrawn
MoveToWithdrawn(t, key) ==
    IF key \in DOMAIN t.unstaking
    THEN LET position == [t.unstaking[key] EXCEPT !.status = "Withdrawn"]
         IN [active |-> t.active,
             unstaking |-> MapRemove(t.unstaking, key),
             withdrawn |-> MapInsert(t.withdrawn, key, position),
             saved |-> Some(position)]
    ELSE [active |-> t.active, unstaking |-> t.unstaking, withdrawn |-> t.withdrawn,
          saved |-> None]

\* move_to_active that keeps the old deposit time
MoveToActiveKeepingDepositTime(t, key, new_deposit_timestamp) ==
    IF key \in DOMAIN t.unstaking
    THEN LET position == [t.unstaking[key] EXCEPT
                            !.status = "Active",
                            !.withdrawal_initiated_timestamp = None]
         IN [active |-> MapInsert(t.active, key, position),
             unstaking |-> MapRemove(t.unstaking, key),
             withdrawn |-> t.withdrawn,
             saved |-> Some(position)]
    ELSE [active |-> t.active, unstaking |-> t.unstaking, withdrawn |-> t.withdrawn,
          saved |-> None]

\* main.rs:127-142 move_to_active
MoveToActive(t, key, new_deposit_timestamp) ==
    IF key \in DOMAIN t.unstaking
    THEN LET position == [t.unstaking[key] EXCEPT
                            !.status = "Active",
                            !.withdrawal_initiated_timestamp = None,
                            !.deposit_timestamp = new_deposit_timestamp]
         IN [active |-> MapInsert(t.active, key, position),
             unstaking |-> MapRemove(t.unstaking, key),
             withdrawn |-> t.withdrawn,
             saved |-> Some(position)]
    ELSE [active |-> t.active, unstaking |-> t.unstaking, withdrawn |-> t.withdrawn,
          saved |-> None]

\* main.rs:144-153 add_active_position
AddActivePosition(t, key, position) ==
    [active |-> MapInsert(t.active, key, position),
     unstaking |-> t.unstaking,
     withdrawn |-> t.withdrawn,
     saved |-> Some(position)]

\* the Position of a Deposit log with the block number taken for the
\* deposit time
DepositPositionBlockAsTime(log) ==
    [user |-> log.user,
     nonce |-> log.nonce,
     amount |-> log.amount,
     deposit_timestamp |-> log.block,
     status |-> "Active",
     withdrawal_initiated_timestamp |-> None,
     block_number |-> log.block]

\* main.rs:563-571 the Position handle_log builds from a Deposit log
DepositPosition(log) ==
    [user |-> log.user,
     nonce |-> log.nonce,
     amount |-> log.amount,
     deposit_timestamp |-> log.timestamp,
     status |-> "Active",
     withdrawal_initiated_timestamp |-> None,
     block_number |-> log.block]

\* main.rs:552-715 handle_log, the tracker call of each decoded event type
HandleLogTracker(t, log) ==
    LET key == <<log.user, log.nonce>>
    IN CASE log.type = "Deposit" -> AddActivePosition(t, key, DepositPosition(log))
         [] log.type = "InitiateWithdraw" -> MoveToUnstaking(t, key, log.timestamp)
         [] log.type = "Withdraw" -> MoveToWithdrawn(t, key)
         [] log.type = "RestakeFromWithdrawalInitiated" -> MoveToActive(t, key, log.timestamp)

\* what a handle_log call amounts to for the position state machine
OutcomeKind(t, log) ==
    LET key == <<log.user, log.nonce>>
    IN IF log.type = "Deposit"
       THEN (IF GetPosition(t, key) = None THEN "created" ELSE "replaced")
       ELSE (IF IsSome(HandleLogTracker(t, log).saved) THEN "moved" ELSE "ignored")


(***************************************************************************)
(* The chain and the RPC provider.                                         *)
(***************************************************************************)
\* a log of the contract (main.rs:20-28): InitiateWithdraw has no amount in
\* its payload (the field is 0 here and never read)
MkLog(id, b, ty, key, a) ==
    [id |-> id, block |-> b, type |-> ty, user |-> key[1], nonce |-> key[2],
     amount |-> IF ty = "InitiateWithdraw" THEN 0 ELSE a, timestamp |-> BlockTime(b)]

\* the type of the last log the contract emitted for a key ("" when none)
LastTypeOf(key) ==
    LET idx == {i \in 1..Len(chain) : <<chain[i].user, chain[i].nonce>> = key}
    IN IF idx = {} THEN ""
       ELSE chain[CHOOSE i \in idx : \A j \in idx : j <= i].type

\* the events the staking contract can emit next for a key: it deposits a
\* nonce once, and then follows the lifecycle of the position
ContractNext(key) ==
    CASE LastTypeOf(key) = "" -> {"Deposit"}
      [] LastTypeOf(key) \in {"Deposit", "RestakeFromWithdrawalInitiated"} -> {"InitiateWithdraw"}
      [] LastTypeOf(key) = "InitiateWithdraw" -> {"Withdraw", "RestakeFromWithdrawalInitiated"}
      [] OTHER -> {}

\* the amount a Withdraw or Restake log carries: the one deposited
DepositedAmount(key) ==
    LET idx == {i \in 1..Len(chain) :
                    <<chain[i].user, chain[i].nonce>> = key /\ chain[i].type = "Deposit"}
    IN chain[CHOOSE i \in idx : TRUE].amount

\* the logs block b may hold
LogsOfBlock(b, id) ==
    {MkLog(id, b, "Deposit", k, a) : k \in {x \in ChainKeys : "Deposit" \in ContractNext(x)},
                                     a \in ChainAmounts}
    \cup
    UNION {{MkLog(id, b, ty, k, DepositedAmount(k)) : ty \in ContractNext(k) \ {"Deposit"}} :
                k \in ChainKeys}

\* main.rs:416-419, 500-503 the filter: logs of blocks from..to, in chain order
GetLogs(from, to) == SelectSeq(chain, LAMBDA l : from <= l.block /\ l.block <= to)

\* StartBlock with the stored cursor ignored (the sync always starts at the
\* deployment block)
StartBlockIgnoringCursor(db_block, deployment_block) == deployment_block

\* main.rs:392 the block the sync starts from
StartBlock(db_block, deployment_block) ==
    IF IsSome(db_block) /\ Unwrap(db_block) >= deployment_block
    THEN Unwrap(db_block)
    ELSE deployment_block

InBatch == pc \in {"position", "event", "commit"}

Init ==
    /\ head = DEPLOYMENT_BLOCK
    /\ chain = <<>>
    /\ dbPositions = EmptyMap
    /\ dbEvents = <<>>
    /\ dbCursor = None
    /\ active_positions = EmptyMap
    /\ unstaking_positions = EmptyMap
    /\ withdrawn_positions = EmptyMap
    /\ pc = "boot"
    /\ mode = "backfill"
    /\ current_block = 0
    /\ last_block = 0
    /\ from_block = 0
    /\ to_block = 0
    /\ retry_count = 0
    /\ logs = <<>>
    /\ restarts = 0
    /\ faults = 0
    /\ handled = {}
    /\ batchPre = None
    /\ batchFailed = FALSE
    /\ crashedInBatch = FALSE
    /\ preRestart = None
    /\ last = "none"
    /\ reply = None

\* the chain grows by one block, empty or holding one log of the contract.
\* The steps inside a batch read neither the head nor the chain, so a block
\* mined during a batch is the same as one mined right after it.
MineBlock ==
    /\ head < MaxBlock
    /\ ~InBatch
    /\ head' = head + 1
    /\ \/ chain' = chain
       \/ \E l \in LogsOfBlock(head + 1, Len(chain) + 1) :
            chain' = Append(chain, l)
    /\ UNCHANGED <<dbVars, trackerVars, pc, localVars, envVars, histVars>>
    /\ UNCHANGED reply

\* the process is killed (at any suspension point) and started again:
\* everything in memory is lost, the Store is kept (main.rs:323-366)
Restart ==
    /\ restarts < MaxRestarts
    /\ pc # "boot"
    /\ restarts' = restarts + 1
    /\ pc' = "boot"
    /\ active_positions' = EmptyMap
    /\ unstaking_positions' = EmptyMap
    /\ withdrawn_positions' = EmptyMap
    /\ mode' = "backfill"
    /\ current_block' = 0
    /\ last_block' = 0
    /\ from_block' = 0
    /\ to_block' = 0
    /\ retry_count' = 0
    /\ logs' = <<>>
    /\ crashedInBatch' = IF pc = "dead" THEN crashedInBatch ELSE InBatch
    /\ preRestart' = IF pc = "dead" THEN preRestart ELSE Some(TrackerState)
    /\ batchFailed' = FALSE
    /\ last' = "none"
    /\ UNCHANGED <<chainVars, dbVars, faults, handled, batchPre>>
    /\ UNCHANGED reply

\* main.rs:376-395 bootstrap: load the positions, read the head and the cursor
BootOk ==
    /\ pc = "boot"
    /\ active_positions' = LoadPositions(dbPositions, "active")
    /\ unstaking_positions' = LoadPositions(dbPositions, "unstaking")
    /\ withdrawn_positions' = LoadPositions(dbPositions, "withdrawn")
    /\ current_block' = head
    /\ LET start == StartBlock(GetLastProcessedBlock(dbCursor), DEPLOYMENT_BLOCK)
       IN /\ last_block' = start
          /\ IF start < head
             THEN /\ pc' = "backfill"
                  /\ from_block' = start
             ELSE /\ pc' = "tail"
                  /\ from_block' = from_block
    /\ mode' = "backfill"
    /\ batchPre' = None
    /\ crashedInBatch' = FALSE
    /\ preRestart' = None
    /\ UNCHANGED <<chainVars, dbVars, to_block, retry_count, logs, envVars,
                   handled, batchFailed, last>>
    /\ UNCHANGED reply

\* main.rs:376, 385, 389 a failing Store read or RPC call at bootstrap is
\* propagated with `?`: run_monitoring returns and the task ends (main.rs:356-360)
BootFail ==
    /\ pc = "boot"
    /\ faults < MaxFaults
    /\ faults' = faults + 1
    /\ pc' = "dead"
    /\ UNCHANGED <<chainVars, dbVars, trackerVars, localVars, restarts, histVars>>
    /\ UNCHANGED reply

\* NextFrom that stays on the range just left
NextFromSameRange(to) == from_block

\* main.rs:464 where the backfill continues after the range that ends at to
NextFrom(to) == to + 1

\* AfterRange with the backfill ending after its first range
AfterRangeStopping(next_from) == "tail"

\* where the backfill loop goes after a range (main.rs:406, 464): the next
\* range, or the tail loop once from_block reached the head read at bootstrap
AfterRange(next_from) == IF next_from < current_block THEN "backfill" ELSE "tail"

\* main.rs:406-434 one log query of the backfill loop that succeeds
BackfillQueryOk ==
    /\ pc = "backfill"
    /\ LET to == Min(from_block + MAX_BLOCK_RANGE, current_block)
           got == GetLogs(from_block, to)
       IN /\ to_block' = to
          /\ logs' = got
          /\ pc' = IF got = <<>> THEN "commit" ELSE "position"
    /\ mode' = "backfill"
    /\ retry_count' = 0
    /\ batchPre' = Some(DbState)
    /\ batchFailed' = FALSE
    /\ last' = "none"
    /\ UNCHANGED <<chainVars, dbVars, trackerVars, current_block, last_block, from_block,
                   envVars, handled, crashedInBatch, preRestart>>
    /\ UNCHANGED reply

\* the errors provider.get_logs may return, told apart by main.rs:451
RpcErrors == {"rate limit", "other"}

\* ShouldRetry with a single retry per range
ShouldRetryOnce(e, count) == e = "rate limit" /\ count < 1

\* main.rs:451 the condition under which a failed query is tried again
ShouldRetry(e, count) == e = "rate limit" /\ count < MAX_RETRIES

\* main.rs:450-455 a rate-limit error with retries left: the same range again
BackfillRetry ==
    /\ pc = "backfill"
    /\ \E e \in RpcErrors :
        /\ ShouldRetry(e, retry_count)
        /\ retry_count' = retry_count + 1
        /\ last' = e
    /\ UNCHANGED <<chainVars, dbVars, trackerVars, pc, mode, current_block, last_block,
                   from_block, to_block, logs, envVars,
                   handled, batchPre, batchFailed, crashedInBatch, preRestart>>
    /\ UNCHANGED reply

\* main.rs:456-464 any other error, or a rate-limit error after the third
\* retry: the range is given up and the loop moves to the next range
BackfillGiveUp ==
    /\ pc = "backfill"
    /\ faults < MaxFaults
    /\ \E e \in RpcErrors :
        /\ ~ShouldRetry(e, retry_count)
        /\ faults' = faults + 1
        /\ last' = e
    /\ LET to == Min(from_block + MAX_BLOCK_RANGE, current_block)
       IN /\ to_block' = to
          /\ from_block' = NextFrom(to)
          /\ pc' = AfterRange(NextFrom(to))
    /\ retry_count' = 0
    /\ UNCHANGED <<chainVars, dbVars, trackerVars, mode, current_block, last_block, logs,
                   restarts, handled, batchPre, batchFailed, crashedInBatch, preRestart>>
    /\ UNCHANGED reply

\* main.rs:546-574, 598-616, 640-657, 681-691 handle_log, first half: the
\* tracker transition of the first pending log and its save_position, whose
\* error is only printed (main.rs:103-105, 118-120, 135-137, 147-149)
ApplyLog ==
    /\ pc = "position"
    /\ LET log == Head(logs)
           r == HandleLogTracker(TrackerState, log)
       IN /\ active_positions' = r.active
          /\ unstaking_positions' = r.unstaking
          /\ withdrawn_positions' = r.withdrawn
          /\ handled' = handled \cup {log.id}
          /\ last' = OutcomeKind(TrackerState, log)
          /\ IF IsSome(r.saved)
             THEN \/ /\ dbPositions' = SavePosition(dbPositions, Unwrap(r.saved))
                     /\ UNCHANGED <<faults, batchFailed>>
                  \/ /\ faults < MaxFaults
                     /\ faults' = faults + 1
                     /\ batchFailed' = TRUE
                     /\ dbPositions' = dbPositions
             ELSE UNCHANGED <<dbPositions, faults, batchFailed>>
    /\ pc' = "event"
    /\ UNCHANGED <<chainVars, dbEvents, dbCursor, localVars, restarts,
                   batchPre, crashedInBatch, preRestart>>
    /\ UNCHANGED reply

\* main.rs:576-589, 618-631, 659-672, 694-707 handle_log, second half: the
\* save_event of the same log, whose error is only printed; then the next log
\* of the batch (main.rs:435-437, 510-512)
RecordEvent ==
    /\ pc = "event"
    /\ \/ /\ dbEvents' = SaveEvent(dbEvents, EventDataOf(Head(logs)))
          /\ UNCHANGED <<faults, batchFailed>>
       \/ /\ faults < MaxFaults
          /\ faults' = faults + 1
          /\ batchFailed' = TRUE
          /\ dbEvents' = dbEvents
    /\ logs' = Tail(logs)
    /\ pc' = IF Tail(logs) = <<>> THEN "commit" ELSE "position"
    /\ last' = "none"
    /\ UNCHANGED <<chainVars, dbPositions, dbCursor, trackerVars, mode, current_block,
                   last_block, from_block, to_block, retry_count, restarts,
                   handled, batchPre, crashedInBatch, preRestart>>
    /\ UNCHANGED reply

\* main.rs:439-448, 464 (backfill) and main.rs:519-527 (tail): the end of a
\* batch: last_block is set and written to the Store; a failing write is only
\* printed
CommitCursor ==
    /\ pc = "commit"
    /\ last_block' = to_block
    /\ \/ /\ dbCursor' = UpdateLastProcessedBlock(dbCursor, to_block)
          /\ faults' = faults
       \/ /\ faults < MaxFaults
          /\ faults' = faults + 1
          /\ dbCursor' = dbCursor
    /\ IF mode = "backfill"
       THEN /\ from_block' = NextFrom(to_block)
            /\ pc' = AfterRange(NextFrom(to_block))
       ELSE /\ from_block' = from_block
            /\ pc' = "tail"
    /\ batchPre' = None
    /\ batchFailed' = FALSE
    /\ UNCHANGED <<chainVars, dbPositions, dbEvents, trackerVars, mode, current_block,
                   to_block, retry_count, logs, restarts,
                   handled, crashedInBatch, preRestart, last>>
    /\ UNCHANGED reply

\* main.rs:490-512 one poll of the tail loop that finds new blocks and gets
\* their logs
TailPollOk ==
    /\ pc = "tail"
    /\ head > last_block
    /\ LET got == GetLogs(last_block + 1, head)
       IN /\ logs' = got
          /\ pc' = IF got = <<>> THEN "commit" ELSE "position"
    /\ to_block' = head
    /\ mode' = "tail"
    /\ batchPre' = Some(DbState)
    /\ batchFailed' = FALSE
    /\ last' = "none"
    /\ UNCHANGED <<chainVars, dbVars, trackerVars, current_block, last_block, from_block,
                   retry_count, envVars, handled, crashedInBatch, preRestart>>
    /\ UNCHANGED reply

\* main.rs:490-496 a poll that finds no new block: nothing to do
TailPollIdle ==
    /\ pc = "tail"
    /\ head <= last_block
    /\ UNCHANGED vars

\* main.rs:529-538 a poll whose head query or log query fails: the error is
\* printed and the loop sleeps until the next poll
TailPollFail ==
    /\ pc = "tail"
    /\ faults < MaxFaults
    /\ faults' = faults + 1
    /\ UNCHANGED <<chainVars, dbVars, trackerVars, pc, localVars, restarts, histVars>>
    /\ UNCHANGED reply

Next ==
    \/ MineBlock
    \/ Restart
    \/ BootOk
    \/ BootFail
    \/ BackfillQueryOk
    \/ BackfillRetry
    \/ BackfillGiveUp
    \/ ApplyLog
    \/ RecordEvent
    \/ CommitCursor
    \/ TailPollOk
    \/ TailPollIdle
    \/ TailPollFail

Spec == Init /\ [][Next]_vars

\* a step of the monitoring task inside the backfill loop or inside a batch:
\* every await of these steps returns (the provider answers or fails, the
\* sleeps of main.rs:454 and 468 end), so the task is not suspended forever
IndexerStep ==
    \/ BackfillQueryOk
    \/ BackfillRetry
    \/ BackfillGiveUp
    \/ ApplyLog
    \/ RecordEvent
    \/ CommitCursor

\* one run of the monitoring task from its start to the end of the backfill,
\* while the chain grows: no restart, and the tail loop is not entered
NextBackfill ==
    \/ MineBlock
    \/ BootOk
    \/ BackfillQueryOk
    \/ BackfillRetry
    \/ BackfillGiveUp
    \/ ApplyLog
    \/ RecordEvent
    \/ CommitCursor

\* the run with the monitoring task scheduled fairly
SpecBackfill == Init /\ [][NextBackfill]_vars /\ WF_vars(IndexerStep)


(***************************************************************************)
(* SpecSM: the position state machine under any sequence of events.  The   *)
(* indexer has finished its bootstrap on an empty Store and follows the    *)
(* chain in tail mode; the contract emits one log per block, of any type,  *)
(* whether or not the position's lifecycle allows it, while the indexer is *)
(* idle; a poll fetches the logs of up to MaxPending blocks as one batch.  *)
(***************************************************************************)
\* the logs of SpecSM: every event type with either amount for one key, and
\* deposits of a second account
SMLogs(b, id) ==
    {MkLog(id, b, "Deposit", <<"0xab", 1>>, a) : a \in Amounts}
    \cup
    {MkLog(id, b, ty, <<"0xab", 1>>, 2) : ty \in EventTypes \ {"Deposit"}}
    \cup
    {MkLog(id, b, "Deposit", <<"0xcd", 1>>, 1)}

\* the state BootOk leaves from Init
InitSM ==
    /\ head = DEPLOYMENT_BLOCK
    /\ chain = <<>>
    /\ dbPositions = EmptyMap
    /\ dbEvents = <<>>
    /\ dbCursor = None
    /\ active_positions = LoadPositions(EmptyMap, "active")
    /\ unstaking_positions = LoadPositions(EmptyMap, "unstaking")
    /\ withdrawn_positions = LoadPositions(EmptyMap, "withdrawn")
    /\ pc = "tail"
    /\ mode = "backfill"
    /\ current_block = DEPLOYMENT_BLOCK
    /\ last_block = StartBlock(None, DEPLOYMENT_BLOCK)
    /\ from_block = 0
    /\ to_block = 0
    /\ retry_count = 0
    /\ logs = <<>>
    /\ restarts = 0
    /\ faults = 0
    /\ handled = {}
    /\ batchPre = None
    /\ batchFailed = FALSE
    /\ crashedInBatch = FALSE
    /\ preRestart = None
    /\ last = "none"
    /\ reply = None

\* the contract emits a log in a new block while the indexer is idle
EmitLog ==
    /\ pc = "tail"
    /\ head - last_block < MaxPending
    /\ Len(chain) < MaxEvents
    /\ head' = head + 1
    /\ \E l \in SMLogs(head + 1, Len(chain) + 1) : chain' = Append(chain, l)
    /\ UNCHANGED <<dbVars, trackerVars, pc, localVars, envVars, histVars>>
    /\ UNCHANGED reply

NextSM ==
    \/ EmitLog
    \/ TailPollOk
    \/ ApplyLog
    \/ RecordEvent
    \/ CommitCursor

SpecSM == InitSM /\ [][NextSM]_vars

(***************************************************************************)
(* Claims about the sync protocol, checked under Spec.                     *)
(***************************************************************************)
\* the persisted cursor as a number (below every block when absent)
CursorValue(c) == IF IsSome(c) THEN Unwrap(c) ELSE DEPLOYMENT_BLOCK - 1

\* the event rows the Store holds for one log (transaction_hash)
RowsOfLog(id) == {i \in 1..Len(dbEvents) : dbEvents[i].transaction_hash = id}

\* C1: after a restart over a Store whose cursor is c, no log of a block <= c
\* is fetched and applied again: a batch never holds a log of a block at or
\* below the persisted cursor.
C1_NoReplayBelowCursor ==
    \A i \in 1..Len(logs) : IsSome(dbCursor) => logs[i].block > Unwrap(dbCursor)

\* C2: the persisted cursor never passes a block whose logs are unapplied:
\* every log of a block in [deployment_block, last_processed_block] has been
\* handled.
C2_CursorCoversOnlyAppliedBlocks ==
    \A i \in 1..Len(chain) :
        (IsSome(dbCursor) /\ DEPLOYMENT_BLOCK <= chain[i].block
                          /\ chain[i].block <= Unwrap(dbCursor))
            => chain[i].id \in handled

\* C3: the writes of one batch are atomic: after the process was killed inside
\* a batch, the Store holds what it held when the batch started.
C3_CrashLeavesPreBatchState ==
    crashedInBatch => DbState = Unwrap(batchPre)

\* C4: after a position or event write of the current batch failed, the
\* cursor is not advanced by that batch.
C4_FailedBatchKeepsCursor ==
    [][batchFailed => dbCursor' = dbCursor]_vars

\* C5: the persisted sync cursor never decreases.
C5_CursorMonotone ==
    [][/\ IsSome(dbCursor) => IsSome(dbCursor')
       /\ CursorValue(dbCursor) <= CursorValue(dbCursor')]_vars

\* witness of C5: after a restart over a Store that holds a cursor, a tail
\* batch has written the cursor again
C5_Witness ==
    /\ restarts > 0
    /\ pc = "tail"
    /\ mode = "tail"
    /\ dbCursor = Some(last_block)
    /\ last_block = MaxBlock

\* C6: handling the same log twice leaves exactly one event record for it:
\* no log has more than one event row.
C6_OneEventRowPerLog ==
    \A id \in handled : Cardinality(RowsOfLog(id)) <= 1

\* C7: a restart yields the position snapshot held before it: the tracker the
\* restarted indexer loads equals the tracker of the killed process, and the
\* Store's positions are untouched.
C7_RestartKeepsSnapshot ==
    [][(pc = "boot" /\ pc' \in {"backfill", "tail"} /\ IsSome(preRestart))
            => (/\ [active |-> active_positions', unstaking |-> unstaking_positions',
                    withdrawn |-> withdrawn_positions'] = Unwrap(preRestart)
                /\ dbPositions' = dbPositions)]_vars

\* C8: a reader never observes a partial batch: while a batch is in progress
\* the Store shows none of it.
C8_ReadersSeeNoPartialBatch ==
    InBatch => DbState = Unwrap(batchPre)


(***************************************************************************)
(* Claims about the position state machine, checked under SpecSM.          *)
(***************************************************************************)
\* the key of the log being handled
LogKey == <<Head(logs).user, Head(logs).nonce>>
\* the step that runs the tracker half of handle_log
IsApplyStep == pc = "position" /\ pc' = "event"
TrackerStateNext == [active |-> active_positions', unstaking |-> unstaking_positions',
                     withdrawn |-> withdrawn_positions']

\* C9: a Deposit for a key without a position creates an Active position with
\* the event's amount, timestamp and block and no withdrawal timestamp, in
\* the tracker and (when the write succeeds) in the Store.
C9_DepositCreatesActive ==
    [][(IsApplyStep /\ Head(logs).type = "Deposit"
            /\ GetPosition(TrackerState, LogKey) = None)
        => LET log == Head(logs)
               p == [user |-> log.user, nonce |-> log.nonce, amount |-> log.amount,
                     deposit_timestamp |-> log.timestamp, status |-> "Active",
                     withdrawal_initiated_timestamp |-> None, block_number |-> log.block]
           IN /\ LogKey \in DOMAIN active_positions'
              /\ active_positions'[LogKey] = p
              /\ GetPosition(TrackerStateNext, LogKey) = Some(p)
              /\ faults' = faults =>
                    /\ DbKey(LogKey) \in DOMAIN dbPositions'
                    /\ LET row == dbPositions'[DbKey(LogKey)]
                       IN /\ row.status = "active"
                          /\ row.amount = log.amount
                          /\ row.deposit_timestamp = log.timestamp
                          /\ row.withdrawal_initiated_timestamp = None
                          /\ row.block_number = log.block]_vars

\* witness of C9: a Deposit of amount 2 has just created a position
C9_Witness ==
    /\ pc = "event"
    /\ last = "created"
    /\ Head(logs).type = "Deposit"
    /\ Head(logs).amount = 2
    /\ LogKey \in DOMAIN active_positions
    /\ DbKey(LogKey) \in DOMAIN dbPositions

\* C10: an InitiateWithdraw for an Active position moves it to Unstaking with
\* withdrawal_initiated_timestamp = the event's timestamp; amount,
\* deposit_timestamp and block_number are unchanged.
C10_InitiateWithdrawMovesToUnstaking ==
    [][(IsApplyStep /\ Head(logs).type = "InitiateWithdraw"
            /\ LogKey \in DOMAIN active_positions)
        => LET old == active_positions[LogKey]
               new == GetPosition(TrackerStateNext, LogKey)
           IN /\ LogKey \notin DOMAIN active_positions'
              /\ LogKey \in DOMAIN unstaking_positions'
              /\ IsSome(new)
              /\ Unwrap(new).status = "Unstaking"
              /\ Unwrap(new).withdrawal_initiated_timestamp = Some(Head(logs).timestamp)
              /\ Unwrap(new).amount = old.amount
              /\ Unwrap(new).deposit_timestamp = old.deposit_timestamp
              /\ Unwrap(new).block_number = old.block_number
              /\ faults' = faults =>
                    /\ dbPositions'[DbKey(LogKey)].status = "unstaking"
                    /\ dbPositions'[DbKey(LogKey)].withdrawal_initiated_timestamp
                            = Some(Head(logs).timestamp)
                    /\ dbPositions'[DbKey(LogKey)].amount = old.amount
                    /\ dbPositions'[DbKey(LogKey)].deposit_timestamp = old.deposit_timestamp]_vars

\* witness of C10: an InitiateWithdraw has just moved a position to Unstaking
C10_Witness ==
    /\ pc = "event"
    /\ last = "moved"
    /\ Head(logs).type = "InitiateWithdraw"
    /\ LogKey \in DOMAIN unstaking_positions
    /\ unstaking_positions[LogKey].withdrawal_initiated_timestamp = Some(Head(logs).timestamp)
    /\ unstaking_positions[LogKey].deposit_timestamp < Head(logs).timestamp

\* the log being handled finds its key with the given status
FindsStatus(st) ==
    /\ IsSome(GetPosition(TrackerState, LogKey))
    /\ Unwrap(GetPosition(TrackerState, LogKey)).status = st

\* C11: a Withdraw for an Unstaking position moves it to Withdrawn and keeps
\* withdrawal_initiated_timestamp, amount, deposit_timestamp and block_number
\* (the event's amount and timestamp are not applied), in the tracker and
\* (when the write succeeds) in the Store.
C11_WithdrawMovesToWithdrawn ==
    [][(IsApplyStep /\ Head(logs).type = "Withdraw" /\ FindsStatus("Unstaking"))
        => LET old == unstaking_positions[LogKey]
               new == GetPosition(TrackerStateNext, LogKey)
           IN /\ LogKey \notin DOMAIN unstaking_positions'
              /\ LogKey \in DOMAIN withdrawn_positions'
              /\ new = Some([old EXCEPT !.status = "Withdrawn"])
              /\ IsSome(Unwrap(new).withdrawal_initiated_timestamp)
              /\ faults' = faults =>
                    dbPositions'[DbKey(LogKey)] =
                        PositionRow([old EXCEPT !.status = "Withdrawn"])]_vars

\* witness of C11: a Withdraw carrying another amount and a later timestamp
\* has just moved a position to Withdrawn
C11_Witness ==
    /\ pc = "event"
    /\ last = "moved"
    /\ Head(logs).type = "Withdraw"
    /\ LogKey \in DOMAIN withdrawn_positions
    /\ withdrawn_positions[LogKey].amount # Head(logs).amount
    /\ Unwrap(withdrawn_positions[LogKey].withdrawal_initiated_timestamp)
            < Head(logs).timestamp
    /\ dbPositions[DbKey(LogKey)].status = "withdrawn"

\* C12: a Restake for an Unstaking position moves it to Active with
\* deposit_timestamp = the event's timestamp and no withdrawal timestamp (the
\* earlier staking time is dropped); amount and block_number are unchanged.
C12_RestakeMovesToActive ==
    [][(IsApplyStep /\ Head(logs).type = "RestakeFromWithdrawalInitiated"
            /\ FindsStatus("Unstaking"))
        => LET old == unstaking_positions[LogKey]
               new == GetPosition(TrackerStateNext, LogKey)
               exp == [old EXCEPT !.status = "Active",
                                  !.deposit_timestamp = Head(logs).timestamp,
                                  !.withdrawal_initiated_timestamp = None]
           IN /\ LogKey \notin DOMAIN unstaking_positions'
              /\ LogKey \in DOMAIN active_positions'
              /\ new = Some(exp)
              /\ exp.amount = old.amount
              /\ faults' = faults => dbPositions'[DbKey(LogKey)] = PositionRow(exp)]_vars

\* witness of C12: a Restake carrying another amount has just moved a
\* position back to Active with a later deposit time
C12_Witness ==
    /\ pc = "event"
    /\ last = "moved"
    /\ Head(logs).type = "RestakeFromWithdrawalInitiated"
    /\ LogKey \in DOMAIN active_positions
    /\ active_positions[LogKey].amount # Head(logs).amount
    /\ active_positions[LogKey].deposit_timestamp = Head(logs).timestamp
    /\ active_positions[LogKey].deposit_timestamp
            > BlockTime(active_positions[LogKey].block_number)
    /\ dbPositions[DbKey(LogKey)].status = "active"

\* the status get_position finds for a key ("absent" when it finds none)
StatusOf(t, key) ==
    IF IsSome(GetPosition(t, key)) THEN Unwrap(GetPosition(t, key)).status ELSE "absent"

\* C13: a Deposit for a key that already has a position is rejected: the
\* positions of the tracker and of the Store are unchanged.
C13_DuplicateDepositRejected ==
    [][(IsApplyStep /\ Head(logs).type = "Deposit"
            /\ IsSome(GetPosition(TrackerState, LogKey)))
        => (TrackerStateNext = TrackerState /\ dbPositions' = dbPositions)]_vars

\* C14: Withdrawn is terminal and the status of a key changes only along
\* Active -> Unstaking, Unstaking -> Active and Unstaking -> Withdrawn.
C14_WithdrawnIsTerminal ==
    [][\A key \in Keys :
        LET old == StatusOf(TrackerState, key)
            new == StatusOf(TrackerStateNext, key)
        IN /\ old = "Withdrawn" => new = "Withdrawn"
           /\ (old # "absent" /\ new # old) =>
                <<old, new>> \in {<<"Active", "Unstaking">>, <<"Unstaking", "Active">>,
                                  <<"Unstaking", "Withdrawn">>}]_vars

\* the log being handled is one the state machine rejects: an
\* InitiateWithdraw for a key that is not Active, a Withdraw or a Restake
\* for a key that is not Unstaking
IsRejectedMove ==
    \/ Head(logs).type = "InitiateWithdraw" /\ ~FindsStatus("Active")
    \/ Head(logs).type \in {"Withdraw", "RestakeFromWithdrawalInitiated"}
            /\ ~FindsStatus("Unstaking")

\* C15: a rejected InitiateWithdraw, Withdraw or Restake leaves all positions
\* unchanged, in the tracker and in the Store.
C15_RejectedMoveChangesNothing ==
    [][(IsApplyStep /\ IsRejectedMove)
        => (TrackerStateNext = TrackerState /\ dbPositions' = dbPositions)]_vars

\* C15 for keys held by one map only (no earlier Deposit was applied to a
\* key that already had a position)
C15_RejectedMoveOfSingleEntry ==
    [][(IsApplyStep /\ IsRejectedMove
            /\ LogKey \notin (DOMAIN active_positions \cap DOMAIN unstaking_positions))
        => (TrackerStateNext = TrackerState /\ dbPositions' = dbPositions)]_vars

\* the step that runs the save_event half of handle_log for a log the tracker
\* ignored or that hit an existing key, with the write succeeding
IsRecordOfRejected ==
    /\ pc = "event"
    /\ pc' # "event"
    /\ last \in {"ignored", "replaced"}
    /\ faults' = faults

\* C16: a rejected event is still appended to the event log, as exactly one
\* row, and the indexer goes on with the following logs of the batch (or
\* ends the batch when there is none): a rejection never halts processing.
C16_RejectedEventIsRecorded ==
    [][IsRecordOfRejected
        => LET log == Head(logs)
           IN /\ Len(dbEvents') = Len(dbEvents) + 1
              /\ SubSeq(dbEvents', 1, Len(dbEvents)) = dbEvents
              /\ dbEvents'[Len(dbEvents')].transaction_hash = log.id
              /\ dbEvents'[Len(dbEvents')].event_type = log.type
              /\ Cardinality({i \in 1..Len(dbEvents') :
                                dbEvents'[i].transaction_hash = log.id}) = 1
              /\ logs' = Tail(logs)
              /\ pc' = IF Tail(logs) = <<>> THEN "commit" ELSE "position"]_vars

\* witness of C16: the event row of an ignored log has been written and the
\* next log of the same batch is about to be handled
C16_Witness ==
    /\ pc = "position"
    /\ Len(logs) = 1
    /\ Len(dbEvents) > 0
    /\ dbEvents[Len(dbEvents)].transaction_hash = Head(logs).id - 1
    /\ dbEvents[Len(dbEvents)].block_number > last_block
    /\ dbEvents[Len(dbEvents)].event_type = "Withdraw"
    /\ active_positions = EmptyMap
    /\ unstaking_positions = EmptyMap
    /\ withdrawn_positions = EmptyMap

\* C17: the amount of a position is set when it is created and never changes
\* afterwards, in the tracker and in the Store, whatever events follow.
C17_AmountNeverChanges ==
    [][\A key \in Keys :
        /\ IsSome(GetPosition(TrackerState, key)) =>
              /\ IsSome(GetPosition(TrackerStateNext, key))
              /\ Unwrap(GetPosition(TrackerStateNext, key)).amount
                    = Unwrap(GetPosition(TrackerState, key)).amount
        /\ DbKey(key) \in DOMAIN dbPositions =>
              /\ DbKey(key) \in DOMAIN dbPositions'
              /\ dbPositions'[DbKey(key)].amount = dbPositions[DbKey(key)].amount]_vars

\* a position record whose withdrawal timestamp fits its status
TimestampFitsStatus(status, wts) ==
    CASE status = "Active" -> wts = None
      [] status = "Unstaking" -> IsSome(wts)
      [] status = "Withdrawn" -> IsSome(wts)
      [] OTHER -> FALSE

\* C18: in every reachable state every position, in the three maps of the
\* tracker and in the Store, has no withdrawal timestamp when Active and has
\* one when Unstaking or Withdrawn.
C18_TimestampFitsStatus ==
    /\ \A key \in DOMAIN active_positions :
          TimestampFitsStatus(active_positions[key].status,
                              active_positions[key].withdrawal_initiated_timestamp)
    /\ \A key \in DOMAIN unstaking_positions :
          TimestampFitsStatus(unstaking_positions[key].status,
                              unstaking_positions[key].withdrawal_initiated_timestamp)
    /\ \A key \in DOMAIN withdrawn_positions :
          TimestampFitsStatus(withdrawn_positions[key].status,
                              withdrawn_positions[key].withdrawal_initiated_timestamp)
    /\ \A k \in DOMAIN dbPositions :
          TimestampFitsStatus(StatusFromStr(dbPositions[k].status),
                              dbPositions[k].withdrawal_initiated_timestamp)

\* witness of C18: a Withdrawn position that keeps its withdrawal timestamp,
\* next to an Active position of another account
C18_Witness ==
    /\ <<"0xab", 1>> \in DOMAIN withdrawn_positions
    /\ withdrawn_positions[<<"0xab", 1>>].status = "Withdrawn"
    /\ IsSome(withdrawn_positions[<<"0xab", 1>>].withdrawal_initiated_timestamp)
    /\ <<"0xcd", 1>> \in DOMAIN active_positions
    /\ dbPositions[DbKey(<<"0xab", 1>>)].status = "withdrawn"

\* main.rs:608-613 the only warning line handle_log prints for a log: the
\* "accumulation STOPPED" line of an InitiateWithdraw whose key has a
\* position; no branch prints or stores anything when a tracker call leaves
\* the positions alone
Warned(t, log) ==
    log.type = "InitiateWithdraw" /\ IsSome(GetPosition(t, <<log.user, log.nonce>>))

\* C19: every event that is persisted has a position with its key (in the
\* tracker or in the Store) or a warning recorded for it.
C19_EventHasPositionOrWarning ==
    [][(pc = "event" /\ Len(dbEvents') > Len(dbEvents))
        => \/ IsSome(GetPosition(TrackerStateNext, LogKey))
           \/ DbKey(LogKey) \in DOMAIN dbPositions'
           \/ Warned(TrackerState, Head(logs))]_vars

(***************************************************************************)
(* Points.  The source computes in f64; here a point value is the exact    *)
(* numerator of a fraction whose denominator is PointsUnit, and a token    *)
(* amount the numerator of a fraction over WEI_PER_TOKEN (rounding is not  *)
(* modelled).                                                              *)
(***************************************************************************)
PointsUnit == WEI_PER_TOKEN * SECONDS_PER_DAY * RATE_SCALE

\* u64::saturating_sub (main.rs:171)
SaturatingSub(a, b) == IF a >= b THEN a - b ELSE 0

\* calculate_position_points with the rate of the stale comment of
\* main.rs:178 (0.0025 Formation points per token per day)
CalculatePositionPointsQuarterRate(position, now) ==
    LET end_timestamp ==
            IF IsSome(position.withdrawal_initiated_timestamp)
            THEN Unwrap(position.withdrawal_initiated_timestamp)
            ELSE IF position.status = "Active" THEN now
            ELSE position.deposit_timestamp
        seconds_staked == SaturatingSub(end_timestamp, position.deposit_timestamp)
    IN [sage_points |-> position.amount * seconds_staked * SAGE_RATE,
        formation_points |-> position.amount * seconds_staked * 25]

\* calculate_position_points that lets every position accrue until now,
\* whatever its withdrawal time
CalculatePositionPointsUntilNow(position, now) ==
    LET seconds_staked == SaturatingSub(now, position.deposit_timestamp)
    IN [sage_points |-> position.amount * seconds_staked * SAGE_RATE,
        formation_points |-> position.amount * seconds_staked * FORMATION_RATE]

\* main.rs:156-183 calculate_position_points; now is SystemTime::now()
CalculatePositionPoints(position, now) ==
    LET end_timestamp ==
            IF IsSome(position.withdrawal_initiated_timestamp)
            THEN Unwrap(position.withdrawal_initiated_timestamp)
            ELSE IF position.status = "Active" THEN now
            ELSE position.deposit_timestamp
        seconds_staked == SaturatingSub(end_timestamp, position.deposit_timestamp)
    IN [sage_points |-> position.amount * seconds_staked * SAGE_RATE,
        formation_points |-> position.amount * seconds_staked * FORMATION_RATE]

\* db.rs:253-274 the points of one row in get_user_points: a plain i64
\* subtraction
RowPoints(row, current_time) ==
    LET end_timestamp ==
            IF IsSome(row.withdrawal_initiated_timestamp)
            THEN Unwrap(row.withdrawal_initiated_timestamp)
            ELSE IF row.status = "active" THEN current_time
            ELSE row.deposit_timestamp
        seconds_staked == end_timestamp - row.deposit_timestamp
    IN [sage_points |-> row.amount * seconds_staked * SAGE_RATE,
        formation_points |-> row.amount * seconds_staked * FORMATION_RATE]

\* db.rs:252-282 the loop of get_user_points over the rows of the user
RECURSIVE SumRows(_, _, _)
SumRows(rows, current_time, what) ==
    IF rows = {} THEN 0
    ELSE LET row == CHOOSE r \in rows : TRUE
             v == CASE what = "sage" -> RowPoints(row, current_time).sage_points
                    [] what = "formation" -> RowPoints(row, current_time).formation_points
                    [] OTHER -> IF row.status = what THEN row.amount ELSE 0
         IN v + SumRows(rows \ {row}, current_time, what)

\* db.rs:233-294 get_user_points: WHERE user_address = $1 compares the text
GetUserPoints(positions, user_address, current_time) ==
    LET rows == {positions[k] : k \in {x \in DOMAIN positions : x[1] = user_address}}
        sage == SumRows(rows, current_time, "sage")
        formation == SumRows(rows, current_time, "formation")
    IN [address |-> user_address,
        sage_points |-> sage,
        formation_points |-> formation,
        total_points |-> sage + formation,
        active_amount |-> SumRows(rows, current_time, "active"),
        unstaking_amount |-> SumRows(rows, current_time, "unstaking"),
        withdrawn_amount |-> SumRows(rows, current_time, "withdrawn")]

\* the per-row terms of a leaderboard query whose CASE goes by the status
\* alone: the withdrawal time for an unstaking row, NOW() for an active row
\* and the deposit time for every other row
LeaderboardRowPointsByStatus(row, now) ==
    LET end_timestamp ==
            IF row.status = "unstaking" /\ IsSome(row.withdrawal_initiated_timestamp)
            THEN Unwrap(row.withdrawal_initiated_timestamp)
            ELSE IF row.status = "active" THEN now
            ELSE row.deposit_timestamp
    IN [sage_points |-> row.amount * (end_timestamp - row.deposit_timestamp) * SAGE_RATE,
        formation_points |->
            row.amount * (end_timestamp - row.deposit_timestamp) * FORMATION_RATE]

\* db.rs:336-366 the per-row terms of the leaderboard query: the CASE picks
\* the withdrawal time when it is not NULL, NOW() for an active row and else
\* the deposit time; the difference is a plain subtraction
LeaderboardRowPoints(row, now) ==
    LET end_timestamp ==
            IF IsSome(row.withdrawal_initiated_timestamp)
            THEN Unwrap(row.withdrawal_initiated_timestamp)
            ELSE IF row.status = "active" THEN now
            ELSE row.deposit_timestamp
    IN [sage_points |-> row.amount * (end_timestamp - row.deposit_timestamp) * SAGE_RATE,
        formation_points |->
            row.amount * (end_timestamp - row.deposit_timestamp) * FORMATION_RATE]

\* db.rs:338-366 SUM(..) of one group of GROUP BY user_address
RECURSIVE LeaderboardSum(_, _, _)
LeaderboardSum(rows, now, what) ==
    IF rows = {} THEN 0
    ELSE LET row == CHOOSE r \in rows : TRUE
             v == IF what = "sage" THEN LeaderboardRowPoints(row, now).sage_points
                  ELSE LeaderboardRowPoints(row, now).formation_points
         IN v + LeaderboardSum(rows \ {row}, now, what)

\* db.rs:336-373 the rows of user_points with their total
LeaderboardUsers(positions, now) ==
    {LET rows == {positions[k] : k \in {x \in DOMAIN positions : x[1] = u}}
         sage == LeaderboardSum(rows, now, "sage")
         formation == LeaderboardSum(rows, now, "formation")
     IN [address |-> u, sage_points |-> sage, formation_points |-> formation,
         total_points |-> sage + formation] : u \in {k[1] : k \in DOMAIN positions}}

\* db.rs:373-375 ROW_NUMBER() OVER (ORDER BY total DESC) and ORDER BY
\* total_points DESC: the orders of the users by total descending; rows of
\* equal total come in whatever order the aggregation produced them
LeaderboardOrders(users) ==
    {o \in [1..Cardinality(users) -> users] :
        /\ \A i, j \in 1..Cardinality(users) : i # j => o[i] # o[j]
        /\ \A i, j \in 1..Cardinality(users) :
                i < j => o[i].total_points >= o[j].total_points}

\* db.rs:333-394 get_leaderboard: the answers the query can give for a limit
\* >= 0 (LIMIT $1), each row with the number of its place in the order
GetLeaderboard(positions, limit, now) ==
    {[i \in 1..Min(limit, Len(o)) |->
        [rank |-> i, address |-> o[i].address, sage_points |-> o[i].sage_points,
         formation_points |-> o[i].formation_points,
         total_points |-> o[i].total_points]] :
            o \in LeaderboardOrders(LeaderboardUsers(positions, now))}

\* api.rs:96 the limit handed to the query
LeaderboardLimit(q) == Min(IF IsSome(q) THEN Unwrap(q) ELSE DEFAULT_LIMIT, MAX_LIMIT)

(***************************************************************************)
(* SpecPts: the read side.  The indexer has started over a Store that      *)
(* holds some positions and idles in the tail loop; points are read from   *)
(* the tracker and from the Store at any clock value.                      *)
(***************************************************************************)
PtsKeys == {<<"0xab", n>> : n \in 1..MaxPtsNonce} \cup {<<"0xcd", 1>>}
\* amounts: half a token and one token
PtsAmounts == {5, WEI_PER_TOKEN}
\* deposit times: the times of blocks 0 and 1
PtsDeposits == {BlockTime(0), BlockTime(1)}
\* the clock of a reader: before every deposit, and one and two days after
\* the first
PtsNow == {BlockTime(0) - SECONDS_PER_DAY, BlockTime(1), BlockTime(2)}
\* the addresses a request may carry: lowercase and checksummed
PtsAddresses == Users \cup {AddressToString(u) : u \in Users}

\* what handle_log can have left of a position: Active without a
\* withdrawal time, or Unstaking / Withdrawn with the time of a later block
PtsShapes ==
    {[amount |-> a, deposit_timestamp |-> d, status |-> "Active",
      withdrawal_initiated_timestamp |-> None] : a \in PtsAmounts, d \in PtsDeposits}
    \cup
    {[amount |-> a, deposit_timestamp |-> d, status |-> st,
      withdrawal_initiated_timestamp |-> Some(d + SECONDS_PER_DAY)] :
        a \in PtsAmounts, d \in PtsDeposits, st \in {"Unstaking", "Withdrawn"}}

\* the position of a key with the given content
PtsPosition(key, sh) ==
    [user |-> key[1], nonce |-> key[2], amount |-> sh.amount,
     deposit_timestamp |-> sh.deposit_timestamp, status |-> sh.status,
     withdrawal_initiated_timestamp |-> sh.withdrawal_initiated_timestamp,
     block_number |-> 1]

InitPts ==
    /\ head = DEPLOYMENT_BLOCK
    /\ chain = <<>>
    /\ \E f \in [PtsKeys -> {None} \cup {Some(sh) : sh \in PtsShapes}] :
        /\ \E k \in PtsKeys : IsSome(f[k])
        /\ dbPositions =
              [dk \in {DbKey(k) : k \in {x \in PtsKeys : IsSome(f[x])}} |->
                  LET key == CHOOSE k \in PtsKeys : DbKey(k) = dk
                  IN PositionRow(PtsPosition(key, Unwrap(f[key])))]
    /\ dbEvents = <<>>
    /\ dbCursor = None
    /\ active_positions = LoadPositions(dbPositions, "active")
    /\ unstaking_positions = LoadPositions(dbPositions, "unstaking")
    /\ withdrawn_positions = LoadPositions(dbPositions, "withdrawn")
    /\ pc = "tail"
    /\ mode = "backfill"
    /\ current_block = DEPLOYMENT_BLOCK
    /\ last_block = StartBlock(None, DEPLOYMENT_BLOCK)
    /\ from_block = 0
    /\ to_block = 0
    /\ retry_count = 0
    /\ logs = <<>>
    /\ restarts = 0
    /\ faults = 0
    /\ handled = {}
    /\ batchPre = None
    /\ batchFailed = FALSE
    /\ crashedInBatch = FALSE
    /\ preRestart = None
    /\ last = "none"
    /\ reply = None

\* main.rs:156-183 the points of one position of the tracker, at clock now.
\* (A read changes nothing but reply; every answer is reached by the first
\* read of a behaviour, so later reads are left out.)
ReadPositionPoints ==
    /\ pc = "tail"
    /\ reply = None
    /\ \E key \in PtsKeys, now \in PtsNow :
        /\ IsSome(GetPosition(TrackerState, key))
        /\ reply' = Some([path |-> "memory",
                          position |-> Unwrap(GetPosition(TrackerState, key)),
                          now |-> now,
                          points |-> CalculatePositionPoints(
                                        Unwrap(GetPosition(TrackerState, key)), now)])
    /\ UNCHANGED <<chainVars, dbVars, trackerVars, pc, localVars, envVars, histVars>>

\* the characters of the strings a request path may carry
Chars(str) ==
    CASE str = "0xab" -> <<"0", "x", "a", "b">>
      [] str = "0xAb" -> <<"0", "x", "A", "b">>
      [] str = "0xcd" -> <<"0", "x", "c", "d">>
      [] str = "0xcD" -> <<"0", "x", "c", "D">>
      [] str = "0xgh" -> <<"0", "x", "g", "h">>
      [] str = "0xa" -> <<"0", "x", "a">>
      [] str = "0xabc" -> <<"0", "x", "a", "b", "c">>
      [] str = "abcd" -> <<"a", "b", "c", "d">>

\* the strings a request may carry as {address}: addresses in either case,
\* then a string with digits that are not hexadecimal, a short and a long
\* one, and one without the prefix
PtsRequests == PtsAddresses \cup {"0xgh", "0xa", "0xabc", "abcd"}

\* api.rs:47, 73 the handlers' test: starts_with("0x") and len() == 42
ValidAddressFormat(str) ==
    /\ Len(Chars(str)) >= 2
    /\ SubSeq(Chars(str), 1, 2) = <<"0", "x">>
    /\ Len(Chars(str)) = ADDRESS_LEN

\* api.rs:48-50, 74-76 the 400 answer of both handlers
BadRequest(endpoint, str) ==
    [path |-> "bad_request", endpoint |-> endpoint, address |-> str,
     status |-> 400, error |-> "Invalid address format", queried |-> FALSE]

\* api.rs:40-62, db.rs:233-294 GET /api/points/{address} at clock now
ReadUserPoints ==
    /\ reply = None
    /\ \E user_address \in PtsRequests, now \in PtsNow :
        IF ~ValidAddressFormat(user_address)
        THEN reply' = Some(BadRequest("points", user_address))
        ELSE reply' = Some([path |-> "store",
                            endpoint |-> "points",
                            address |-> user_address,
                            status |-> 200,
                            queried |-> TRUE,
                            rows |-> {dbPositions[k] :
                                        k \in {x \in DOMAIN dbPositions :
                                                    x[1] = user_address}},
                            now |-> now,
                            result |-> GetUserPoints(dbPositions, user_address, now)])
    /\ UNCHANGED <<chainVars, dbVars, trackerVars, pc, localVars, envVars, histVars>>

\* the limits a leaderboard request may carry: none, or an integer
PtsLimits == {None, Some(-1), Some(0), Some(1), Some(MAX_LIMIT + 1)}

\* api.rs:91-107, db.rs:333-394 GET /api/leaderboard at clock now.  PostgreSQL
\* refuses a negative LIMIT: the query fails and the handler answers 500.
ReadLeaderboard ==
    /\ reply = None
    /\ \E q \in PtsLimits, now \in PtsNow :
        LET limit == LeaderboardLimit(q)
        IN IF limit < 0
           THEN reply' = Some([path |-> "leaderboard", query |-> q, limit |-> limit,
                               now |-> now, status |-> 500, entries |-> <<>>])
           ELSE \E res \in GetLeaderboard(dbPositions, limit, now) :
                    reply' = Some([path |-> "leaderboard", query |-> q, limit |-> limit,
                                   now |-> now, status |-> 200, entries |-> res])
    /\ UNCHANGED <<chainVars, dbVars, trackerVars, pc, localVars, envVars, histVars>>

NextPts ==
    \/ ReadPositionPoints
    \/ ReadUserPoints
    \/ ReadLeaderboard

SpecPts == InitPts /\ [][NextPts]_vars

(***************************************************************************)
(* Claims about points, checked under SpecPts.                             *)
(***************************************************************************)
\* the end time of the staked duration: the withdrawal time if set, else the
\* reference time for an Active position, else the deposit time
EndTime(status, wts, d, T_ref) ==
    IF IsSome(wts) THEN Unwrap(wts) ELSE IF status = "Active" THEN T_ref ELSE d

\* sage = (a / 10^18) * ((T_end - d) / 86400) * 0.01 and
\* formation = (a / 10^18) * ((T_end - d) / 86400) * 0.005, for point values
\* given as numerators over PointsUnit
IsPointsOf(sage, formation, a, d, T_end) ==
    /\ sage * 100 * WEI_PER_TOKEN * SECONDS_PER_DAY = a * (T_end - d) * PointsUnit
    /\ formation * 200 * WEI_PER_TOKEN * SECONDS_PER_DAY = a * (T_end - d) * PointsUnit
    /\ 2 * formation = sage

C20_StoreReadReached ==
    /\ IsSome(reply)
    /\ Unwrap(reply).path = "store"
    /\ Cardinality(Unwrap(reply).rows) = 1
    /\ Unwrap(reply).result.total_points * 1000 = 15 * PointsUnit

\* C21: the points of a position depend on the reference time only while it
\* is Active: they are non-decreasing in T_ref for an Active position and,
\* for an Unstaking or Withdrawn one, the same at every T_ref: the points of
\* the time from the deposit to the initiation of the withdrawal.
C21_PointsFrozenUnlessActive ==
    (IsSome(reply) /\ Unwrap(reply).path = "memory") =>
        LET p == Unwrap(reply).position
            now == Unwrap(reply).now
            pts == Unwrap(reply).points
        IN \A t \in PtsNow :
            /\ (p.status = "Active" /\ t >= now) =>
                  /\ CalculatePositionPoints(p, t).sage_points >= pts.sage_points
                  /\ CalculatePositionPoints(p, t).formation_points
                        >= pts.formation_points
            /\ p.status \in {"Unstaking", "Withdrawn"} =>
                  /\ CalculatePositionPoints(p, t) = pts
                  /\ pts.sage_points =
                        p.amount * (Unwrap(p.withdrawal_initiated_timestamp)
                                        - p.deposit_timestamp) * SAGE_RATE

\* witness of C21: the points of a Withdrawn position read a day after its
\* withdrawal was initiated
C21_Witness ==
    /\ IsSome(reply)
    /\ Unwrap(reply).path = "memory"
    /\ Unwrap(reply).position.status = "Withdrawn"
    /\ Unwrap(reply).now > Unwrap(Unwrap(reply).position.withdrawal_initiated_timestamp)
    /\ Unwrap(reply).points.sage_points > 0

\* C22: no read path gives negative sage or formation points: a duration
\* whose end is before the deposit time counts as 0.
C22_PointsNeverNegative ==
    IsSome(reply) =>
        /\ Unwrap(reply).path = "memory" =>
              /\ Unwrap(reply).points.sage_points >= 0
              /\ Unwrap(reply).points.formation_points >= 0
        /\ Unwrap(reply).path = "store" =>
              /\ Unwrap(reply).result.sage_points >= 0
              /\ Unwrap(reply).result.formation_points >= 0

\* what one row adds to a field of the GetUserPoints answer
RowShare(row, now, what) ==
    CASE what = "sage" -> RowPoints(row, now).sage_points
      [] what = "formation" -> RowPoints(row, now).formation_points
      [] OTHER -> IF row.status = what THEN row.amount ELSE 0

\* the sum of a field over the positions of an account, nonce by nonce
RECURSIVE AccountSum(_, _, _, _)
AccountSum(account, n, now, what) ==
    IF n = 0 THEN 0
    ELSE (IF DbKey(<<account, n>>) \in DOMAIN dbPositions
          THEN RowShare(dbPositions[DbKey(<<account, n>>)], now, what)
          ELSE 0) + AccountSum(account, n - 1, now, what)

\* the answer holds, field by field, the sum over every position of the account
AggregatesAccount(r, account) ==
    /\ r.result.sage_points = AccountSum(account, MaxPtsNonce, r.now, "sage")
    /\ r.result.formation_points = AccountSum(account, MaxPtsNonce, r.now, "formation")
    /\ r.result.active_amount = AccountSum(account, MaxPtsNonce, r.now, "active")
    /\ r.result.unstaking_amount = AccountSum(account, MaxPtsNonce, r.now, "unstaking")
    /\ r.result.withdrawn_amount = AccountSum(account, MaxPtsNonce, r.now, "withdrawn")

\* C23: GetUserPoints(address) aggregates every position of the user exactly
\* once: points summed over all the positions of the account, each amount in
\* the field of its status.
C23_UserPointsAggregateAll ==
    (IsSome(reply) /\ Unwrap(reply).path = "store"
        /\ Unwrap(reply).address \in PtsAddresses) =>
        AggregatesAccount(Unwrap(reply), AddressFromStr(Unwrap(reply).result.address))

\* C23 for requests that carry the address in the form the Store holds
C23_AggregatesStoredForm ==
    (IsSome(reply) /\ Unwrap(reply).path = "store"
        /\ Unwrap(reply).address \in PtsAddresses
        /\ Unwrap(reply).result.address
                = AddressToString(AddressFromStr(Unwrap(reply).result.address))) =>
        AggregatesAccount(Unwrap(reply), AddressFromStr(Unwrap(reply).result.address))

\* the place of an address string in ascending (byte) order
AddressRank(a) ==
    CASE a = "0xAb" -> 1
      [] a = "0xab" -> 2
      [] a = "0xcD" -> 3
      [] a = "0xcd" -> 4

\* C24: the leaderboard is sorted by total_points descending, ties by address
\* ascending, and the entry at place i has rank i.
C24_LeaderboardOrder ==
    (IsSome(reply) /\ Unwrap(reply).path = "leaderboard") =>
        LET e == Unwrap(reply).entries
        IN /\ \A i \in 1..Len(e) : e[i].rank = i
           /\ \A i, j \in 1..Len(e) :
                i < j => \/ e[i].total_points > e[j].total_points
                         \/ /\ e[i].total_points = e[j].total_points
                            /\ AddressRank(e[i].address) < AddressRank(e[j].address)

\* C24 without the tie-break: total_points descending and rank = place
C24_OrderedByTotal ==
    (IsSome(reply) /\ Unwrap(reply).path = "leaderboard") =>
        LET e == Unwrap(reply).entries
        IN /\ \A i \in 1..Len(e) : e[i].rank = i
           /\ \A i, j \in 1..Len(e) : i < j => e[i].total_points >= e[j].total_points

\* C25: the limit served is 10 when none is given and the given one clamped
\* to [1, 100]; every request succeeds and returns at most 100 entries and,
\* when a user has positions, at least one.
C25_LimitClamped ==
    (IsSome(reply) /\ Unwrap(reply).path = "leaderboard") =>
        LET r == Unwrap(reply)
        IN /\ r.query = None => r.limit = 10
           /\ (IsSome(r.query) /\ Unwrap(r.query) < 1) => r.limit = 1
           /\ (IsSome(r.query) /\ Unwrap(r.query) > 100) => r.limit = 100
           /\ (IsSome(r.query) /\ Unwrap(r.query) \in 1..100) => r.limit = Unwrap(r.query)
           /\ r.status = 200
           /\ Len(r.entries) <= 100
           /\ dbPositions # EmptyMap => Len(r.entries) >= 1

\* C25 for limits of at least 1
C25_UpperClamp ==
    (IsSome(reply) /\ Unwrap(reply).path = "leaderboard"
        /\ (IsSome(Unwrap(reply).query) => Unwrap(Unwrap(reply).query) >= 1)) =>
        C25_LimitClamped

\* the hexadecimal digits
HexDigits == {"0", "1", "2", "3", "4", "5", "6", "7", "8", "9",
              "a", "b", "c", "d", "e", "f", "A", "B", "C", "D", "E", "F"}

\* 0x followed by exactly the address's number of hexadecimal digits
IsHexAddress(str) ==
    /\ Len(Chars(str)) = ADDRESS_LEN
    /\ SubSeq(Chars(str), 1, 2) = <<"0", "x">>
    /\ \A i \in 3..Len(Chars(str)) : Chars(str)[i] \in HexDigits

\* C26: an address is accepted only if it is 0x followed by hexadecimal
\* digits of the full length; every other string is answered with 400
\* "Invalid address format" and the Store is not queried.
C26_OnlyHexAddressesAccepted ==
    (IsSome(reply) /\ Unwrap(reply).path \in {"store", "bad_request"}
        /\ ~IsHexAddress(Unwrap(reply).address)) =>
        /\ Unwrap(reply).status = 400
        /\ Unwrap(reply).error = "Invalid address format"
        /\ ~Unwrap(reply).queried

\* C26 for strings of a wrong length or without the prefix
C26_WrongShapeRejected ==
    (IsSome(reply) /\ Unwrap(reply).path \in {"store", "bad_request"}
        /\ ~ValidAddressFormat(Unwrap(reply).address)) =>
        /\ Unwrap(reply).status = 400
        /\ Unwrap(reply).error = "Invalid address format"
        /\ ~Unwrap(reply).queried

(***************************************************************************)
(* SpecEv: the event log read side.  The Store holds event rows written by *)
(* save_event in chain order; GET /api/events/{address} reads them.        *)
(***************************************************************************)
\* db.rs:299-306 the rows of the user in ORDER BY block_number DESC,
\* timestamp DESC: rows equal in both columns come in any order
UserEventOrders(rows) ==
    {o \in [1..Cardinality(rows) -> rows] :
        /\ \A i, j \in 1..Cardinality(rows) : i # j => o[i] # o[j]
        /\ \A i, j \in 1..Cardinality(rows) :
            i < j => \/ o[i].block_number > o[j].block_number
                     \/ /\ o[i].block_number = o[j].block_number
                        /\ o[i].timestamp >= o[j].timestamp}

\* db.rs:297-330 get_user_events: the answers the query can give.  The
\* status comes from the LEFT JOIN on positions ('' when there is no row);
\* id is not part of the answer and is kept to tell the rows apart.
GetUserEvents(events, positions, user_address) ==
    LET rows == {events[i] : i \in {x \in 1..Len(events) :
                                        events[x].user_address = user_address}}
    IN {[i \in 1..Len(o) |->
            [event_type |-> o[i].event_type,
             amount |-> IF IsSome(o[i].amount) THEN Unwrap(o[i].amount) ELSE 0,
             nonce |-> o[i].nonce,
             timestamp |-> o[i].timestamp,
             block_number |-> o[i].block_number,
             status |-> IF IsSome(o[i].nonce)
                            /\ <<o[i].user_address, Unwrap(o[i].nonce)>> \in DOMAIN positions
                        THEN positions[<<o[i].user_address, Unwrap(o[i].nonce)>>].status
                        ELSE "",
             id |-> o[i].id]] : o \in UserEventOrders(rows)}

\* the logs whose event rows the Store may hold: InitiateWithdraw and
\* Withdraw logs of two accounts that have no position, in blocks 1 and 2,
\* carrying the time of their block or a second more
EvLogs(id) ==
    {[id |-> id, block |-> b, type |-> ty, user |-> u, nonce |-> 1,
      amount |-> IF ty = "InitiateWithdraw" THEN 0 ELSE 1, timestamp |-> BlockTime(b) + dt] :
        b \in 1..2, ty \in {"InitiateWithdraw", "Withdraw"}, u \in Users, dt \in 0..1}

\* the events table after save_event ran for each log of a list
RECURSIVE SaveEvents(_, _)
SaveEvents(events, list) ==
    IF list = <<>> THEN events
    ELSE SaveEvents(SaveEvent(events, EventDataOf(Head(list))), Tail(list))

InitEv ==
    /\ head = 2
    /\ \E n \in 1..MaxEvRows :
        \E list \in [1..n -> UNION {EvLogs(i) : i \in 1..MaxEvRows}] :
            /\ \A i \in 1..n : list[i].id = i
            /\ \A i \in 1..(n - 1) : list[i].block <= list[i + 1].block
            /\ chain = list
            /\ dbEvents = SaveEvents(<<>>, list)
    /\ dbPositions = EmptyMap
    /\ dbCursor = Some(2)
    /\ active_positions = EmptyMap
    /\ unstaking_positions = EmptyMap
    /\ withdrawn_positions = EmptyMap
    /\ pc = "tail"
    /\ mode = "tail"
    /\ current_block = DEPLOYMENT_BLOCK
    /\ last_block = 2
    /\ from_block = 0
    /\ to_block = 2
    /\ retry_count = 0
    /\ logs = <<>>
    /\ restarts = 0
    /\ faults = 0
    /\ handled = {chain[i].id : i \in 1..Len(chain)}
    /\ batchPre = None
    /\ batchFailed = FALSE
    /\ crashedInBatch = FALSE
    /\ preRestart = None
    /\ last = "none"
    /\ reply = None

\* api.rs:65-88, db.rs:297-330 GET /api/events/{address}
ReadUserEvents ==
    /\ reply = None
    /\ \E user_address \in PtsRequests :
        IF ~ValidAddressFormat(user_address)
        THEN reply' = Some(BadRequest("events", user_address))
        ELSE \E res \in GetUserEvents(dbEvents, dbPositions, user_address) :
                reply' = Some([path |-> "events", endpoint |-> "events",
                               address |-> user_address, status |-> 200,
                               queried |-> TRUE, events |-> res])
    /\ UNCHANGED <<chainVars, dbVars, trackerVars, pc, localVars, envVars, histVars>>

NextEv == ReadUserEvents

SpecEv == InitEv /\ [][NextEv]_vars

\* C27: GetUserEvents returns the user's events by block_number descending
\* and, within a block, by insertion order descending (the later inserted
\* first), whatever timestamps the events carry.
C27_EventsNewestFirst ==
    (IsSome(reply) /\ Unwrap(reply).path = "events") =>
        LET e == Unwrap(reply).events
        IN \A i, j \in 1..Len(e) :
            i < j => \/ e[i].block_number > e[j].block_number
                     \/ /\ e[i].block_number = e[j].block_number
                        /\ e[i].id > e[j].id

\* C27 for the block order alone
C27_BlocksDescending ==
    (IsSome(reply) /\ Unwrap(reply).path = "events") =>
        LET e == Unwrap(reply).events
        IN \A i, j \in 1..Len(e) : i < j => e[i].block_number >= e[j].block_number

(***************************************************************************)
(* The sync loops (Spec): ranges of the backfill, retries, tail polls.     *)
(***************************************************************************)
Max(a, b) == IF a > b THEN a ELSE b

\* the bootstrap has read the head and the cursor (main.rs:385-395)
IsBootStep == pc = "boot" /\ pc' \in {"backfill", "tail"}

\* a log query of the backfill loop was answered (main.rs:423-424)
IsBackfillQuery == pc = "backfill" /\ pc' \in {"position", "commit"}

\* the backfill loop leaves a range, applied or given up (main.rs:464)
IsRangeEnd ==
    \/ pc = "commit" /\ mode = "backfill" /\ pc' \in {"backfill", "tail"}
    \/ pc = "backfill" /\ pc' \in {"backfill", "tail"} /\ from_block' # from_block

\* C28, the start block as a function: max(cursor, deployment_block), the
\* deployment block when the cursor is absent
C28_StartBlockIsMax ==
    \A d \in 0..MaxBlock :
        /\ StartBlock(None, d) = d
        /\ \A c \in 0..MaxBlock : StartBlock(Some(c), d) = Max(c, d)

\* C28: the backfill starts at max(cursor, deployment_block) and runs only
\* while start_block < H; each query asks for [start_block,
\* min(start_block + MAX_RANGE, H)]; after a range the loop continues at
\* to_block + 1, so the ranges of one run are contiguous and do not overlap.
C28_BackfillRanges ==
    [][/\ C28_StartBlockIsMax
       /\ IsBootStep =>
            /\ last_block' = Max(CursorValue(dbCursor), DEPLOYMENT_BLOCK)
            /\ current_block' = head
            /\ (pc' = "backfill") <=> (last_block' < current_block')
            /\ pc' = "backfill" => from_block' = last_block'
       /\ IsBackfillQuery =>
            /\ from_block < current_block
            /\ to_block' = Min(from_block + MAX_BLOCK_RANGE, current_block)
            /\ logs' = GetLogs(from_block, to_block')
            /\ from_block' = from_block /\ current_block' = current_block
       /\ IsRangeEnd =>
            /\ to_block' = Min(from_block + MAX_BLOCK_RANGE, current_block)
            /\ from_block' = to_block' + 1
            /\ from_block' > from_block
            /\ current_block' = current_block
            /\ (pc' = "backfill") <=> (from_block' < current_block)]_vars

\* the second range of a run was queried: it starts right after the first
C28_Witness ==
    /\ pc = "commit" /\ mode = "backfill"
    /\ last_block = StartBlock(GetLastProcessedBlock(dbCursor), DEPLOYMENT_BLOCK) + MAX_BLOCK_RANGE
    /\ from_block = last_block + 1
    /\ to_block = Min(from_block + MAX_BLOCK_RANGE, current_block)

\* a failed query of the backfill was answered by another try (main.rs:452-455)
IsRetryStep == pc = "backfill" /\ pc' = "backfill" /\ retry_count' = retry_count + 1

\* a failed query of the backfill ended its range (main.rs:456-459, 464)
IsGiveUpStep ==
    pc = "backfill" /\ pc' \in {"backfill", "tail"} /\ from_block' # from_block

\* C29: during backfill a query failing with a rate-limit error is tried
\* again on the same range, at most 3 times per range; a rate-limit error
\* ends the range only after the third retry, and then the loop moves to the
\* next range with nothing applied.
C29_RateLimitRetries ==
    [][/\ retry_count' <= MAX_RETRIES
       /\ IsRetryStep =>
            /\ last' = "rate limit"
            /\ retry_count < MAX_RETRIES
            /\ UNCHANGED <<from_block, current_block, last_block, dbVars, trackerVars>>
       /\ IsGiveUpStep =>
            /\ last' \in RpcErrors
            /\ last' = "rate limit" => retry_count = MAX_RETRIES
            /\ from_block' = Min(from_block + MAX_BLOCK_RANGE, current_block) + 1
            /\ (pc' = "backfill") <=> (from_block' < current_block)
            /\ retry_count' = 0
            /\ UNCHANGED <<last_block, dbVars, trackerVars>>]_vars

\* a range was skipped because of a rate-limit error and a later range of the
\* same run is about to be queried
C29_Witness ==
    /\ pc = "backfill" /\ last = "rate limit" /\ retry_count = 0
    /\ from_block = to_block + 1
    /\ from_block > last_block + MAX_BLOCK_RANGE

\* a poll of the tail loop got the logs of its range (main.rs:506-507)
IsTailFetch == pc = "tail" /\ pc' \in {"position", "commit"}

\* the batch of a tail poll ends (main.rs:519-527)
IsTailCommit == pc = "commit" /\ mode = "tail" /\ pc' = "tail"

\* a poll of the tail loop that fetched nothing: no new block, or a failed
\* head or log query (main.rs:496, 529-537)
IsTailNoFetch == pc = "tail" /\ pc' = "tail"

\* C30: in tail mode a poll whose head H is above the cursor fetches the logs
\* of exactly [cursor + 1, H], applies them and sets the cursor to H, also
\* when the range holds no logs; a poll with H <= cursor or with a failing
\* head or log query leaves positions, events and cursor unchanged.
C30_TailPollsFromCursor ==
    /\ [](pc = "tail" /\ IsSome(dbCursor) => last_block = Unwrap(dbCursor))
    /\ [][/\ (IsTailFetch /\ IsSome(dbCursor)) =>
                /\ head > Unwrap(dbCursor)
                /\ logs' = GetLogs(Unwrap(dbCursor) + 1, head)
                /\ to_block' = head
          /\ IsTailCommit => dbCursor' = Some(to_block)
          /\ IsTailNoFetch => UNCHANGED <<dbVars, trackerVars>>]_vars

\* C30 with the block number the loop keeps in memory in the place of the
\* stored cursor, and the write of the cursor left to succeed or fail
C30_TailPollsFromLastBlock ==
    [][/\ IsTailFetch =>
            /\ head > last_block
            /\ logs' = GetLogs(last_block + 1, head)
            /\ to_block' = head
            /\ UNCHANGED <<dbVars, trackerVars, last_block>>
       /\ IsTailCommit =>
            /\ last_block' = to_block
            /\ dbCursor' \in {Some(to_block), dbCursor}
       /\ IsTailNoFetch => UNCHANGED <<dbVars, trackerVars, last_block>>]_vars

\* C30, the stored cursor is never behind the block number a tail poll uses
C30_CursorNeverBehind == ~(pc = "tail" /\ IsSome(dbCursor) /\ Unwrap(dbCursor) < last_block)

\* the block of a log of the chain, by its id (its place in the chain)
BlockOfLog(id) == chain[id].block

\* C31: events are applied to positions and appended to the event log in
\* chain order: the logs of a batch are in chain order, no log is applied
\* after a log of a later block was applied, and the event log never holds
\* an event of an earlier block behind an event of a later block.
C31_ChainOrder ==
    /\ [](\A i, j \in 1..Len(logs) : i < j => logs[i].id < logs[j].id)
    /\ [](\A i, j \in 1..Len(dbEvents) :
            i < j => dbEvents[i].block_number <= dbEvents[j].block_number)
    /\ [][IsApplyStep =>
            \A id \in handled : BlockOfLog(id) <= Head(logs).block]_vars

\* C31 within one run of the process: until the first restart the logs of a
\* batch are in chain order and no log is applied after a log of a later block
C31_ChainOrderWithinRun ==
    /\ [](\A i, j \in 1..Len(logs) :
            i < j => /\ logs[i].id < logs[j].id
                     /\ logs[i].block <= logs[j].block)
    /\ [][(IsApplyStep /\ restarts = 0) =>
            \A id \in handled : BlockOfLog(id) <= Head(logs).block]_vars

\* C32: a failed RPC call or Store call never ends the indexer task: after
\* an error at bootstrap, in backfill or in tail mode the indexer keeps
\* running (so that blocks appearing later are indexed).
C32_ErrorsNeverEndTask == pc # "dead"

\* C32 for the errors met after the bootstrap: a failing log query, head
\* query or Store write leaves the task running
C32_LoopErrorsKeepRunning ==
    [][(faults' > faults /\ pc # "boot") => pc' \notin {"dead", "boot"}]_vars

\* the hexadecimal digits that have a lowercase form
UpperHexDigits == {"A", "B", "C", "D", "E", "F"}

\* a string with no uppercase hexadecimal digit
IsLowercased(str) == \A i \in 1..Len(Chars(str)) : Chars(str)[i] \notin UpperHexDigits

\* the user_address column of every row of the positions and events tables
StoredAddresses ==
    {dbPositions[k].user_address : k \in DOMAIN dbPositions}
        \cup {dbEvents[i].user_address : i \in 1..Len(dbEvents)}

\* C33: the user_address stored with every position and every event is the
\* lowercased 0x-prefixed hex form of the account (the form a lookup by the
\* lowercased address matches).
C33_StoredAddressLowercased ==
    \A a \in StoredAddresses : IsLowercased(a) /\ a \in Users

\* C33 for the form the code does store: the checksummed text of the account
C33_StoredAddressChecksummed ==
    \A a \in StoredAddresses : a = AddressToString(AddressFromStr(a)) /\ ValidAddressFormat(a)

(***************************************************************************)
(* The two computations of a user's points: the tracker's and the Store's. *)
(***************************************************************************)
\* main.rs:190-194 (196-200, 203-207) the sum of calculate_position_points
\* over the positions of one map that belong to the user
RECURSIVE SumMapPoints(_, _, _, _, _)
SumMapPoints(map, keys, user, now, what) ==
    IF keys = {} THEN 0
    ELSE LET k == CHOOSE x \in keys : TRUE
             pts == CalculatePositionPoints(map[k], now)
             v == IF map[k].user # user THEN 0
                  ELSE IF what = "sage" THEN pts.sage_points ELSE pts.formation_points
         IN v + SumMapPoints(map, keys \ {k}, user, now, what)

\* main.rs:186-211 calculate_user_points
CalculateUserPoints(t, user, now) ==
    [sage_points |->
        SumMapPoints(t.active, DOMAIN t.active, user, now, "sage")
        + SumMapPoints(t.unstaking, DOMAIN t.unstaking, user, now, "sage")
        + SumMapPoints(t.withdrawn, DOMAIN t.withdrawn, user, now, "sage"),
     formation_points |->
        SumMapPoints(t.active, DOMAIN t.active, user, now, "formation")
        + SumMapPoints(t.unstaking, DOMAIN t.unstaking, user, now, "formation")
        + SumMapPoints(t.withdrawn, DOMAIN t.withdrawn, user, now, "formation")]

\* the rows the Store holds for an account
RowsOfAccount(u) ==
    {dbPositions[k] : k \in {x \in DOMAIN dbPositions : x[1] = AddressToString(u)}}

IsLeaderboardAnswer == IsSome(reply) /\ Unwrap(reply).path = "leaderboard"
                                     /\ Unwrap(reply).status = 200

\* C34 as stated: in the Store's leaderboard computation a Withdrawn position
\* contributes a zero duration, and the leaderboard's totals of a user who
\* has a Withdrawn position with withdrawal_initiated_timestamp >
\* deposit_timestamp differ from the totals of calculate_user_points.
C34_WithdrawnCountsZeroInLeaderboard ==
    IsLeaderboardAnswer =>
        LET r == Unwrap(reply)
        IN /\ \A k \in DOMAIN dbPositions :
                dbPositions[k].status = "withdrawn"
                    => LeaderboardRowPoints(dbPositions[k], r.now).sage_points = 0
           /\ \A i \in 1..Len(r.entries) :
                LET u == AddressFromStr(r.entries[i].address)
                    mem == CalculateUserPoints(TrackerState, u, r.now)
                IN (\E row \in RowsOfAccount(u) :
                        /\ row.status = "withdrawn"
                        /\ IsSome(row.withdrawal_initiated_timestamp)
                        /\ Unwrap(row.withdrawal_initiated_timestamp) > row.deposit_timestamp)
                    => r.entries[i].sage_points + r.entries[i].formation_points
                            # mem.sage_points + mem.formation_points

\* C34 amended: in the Store's leaderboard computation a Withdrawn position
\* contributes the duration withdrawal_initiated_timestamp -
\* deposit_timestamp, the end time calculate_position_points uses too; for a
\* user whose positions are all Withdrawn the leaderboard's points equal
\* those of calculate_user_points.
C34_WithdrawnUsesWithdrawalTime ==
    IsLeaderboardAnswer =>
        LET r == Unwrap(reply)
        IN /\ \A k \in DOMAIN dbPositions :
                LET row == dbPositions[k]
                IN row.status = "withdrawn" =>
                    /\ IsSome(row.withdrawal_initiated_timestamp)
                    /\ LeaderboardRowPoints(row, r.now).sage_points
                        = row.amount * (Unwrap(row.withdrawal_initiated_timestamp)
                                            - row.deposit_timestamp) * SAGE_RATE
                    /\ LeaderboardRowPoints(row, r.now)
                        = CalculatePositionPoints(PositionOfRow(row), r.now)
           /\ \A i \in 1..Len(r.entries) :
                LET u == AddressFromStr(r.entries[i].address)
                    mem == CalculateUserPoints(TrackerState, u, r.now)
                IN (\A row \in RowsOfAccount(u) : row.status = "withdrawn")
                    => /\ r.entries[i].sage_points = mem.sage_points
                       /\ r.entries[i].formation_points = mem.formation_points

\* the leaderboard lists, with points above zero, a user whose positions are
\* all Withdrawn
C34_Witness ==
    /\ IsLeaderboardAnswer
    /\ \E i \in 1..Len(Unwrap(reply).entries) :
        /\ \A row \in RowsOfAccount(AddressFromStr(Unwrap(reply).entries[i].address)) :
                row.status = "withdrawn"
        /\ Unwrap(reply).entries[i].sage_points > 0
        /\ CalculateUserPoints(TrackerState, AddressFromStr(Unwrap(reply).entries[i].address),
                               Unwrap(reply).now).sage_points > 0

\* C35: in the tracker every key is in at most one of active_positions,
\* unstaking_positions and withdrawn_positions, and the status of each entry
\* names the map that holds it.
C35_KeyInOneMap ==
    /\ (DOMAIN active_positions) \cap (DOMAIN unstaking_positions) = {}
    /\ (DOMAIN active_positions) \cap (DOMAIN withdrawn_positions) = {}
    /\ (DOMAIN unstaking_positions) \cap (DOMAIN withdrawn_positions) = {}
    /\ \A k \in DOMAIN active_positions : active_positions[k].status = "Active"
    /\ \A k \in DOMAIN unstaking_positions : unstaking_positions[k].status = "Unstaking"
    /\ \A k \in DOMAIN withdrawn_positions : withdrawn_positions[k].status = "Withdrawn"

\* C35 for the status fields alone, and for the keys of every entry
C35_StatusNamesMap ==
    /\ \A k \in DOMAIN active_positions :
        active_positions[k].status = "Active"
            /\ k = <<active_positions[k].user, active_positions[k].nonce>>
    /\ \A k \in DOMAIN unstaking_positions :
        unstaking_positions[k].status = "Unstaking"
            /\ k = <<unstaking_positions[k].user, unstaking_positions[k].nonce>>
    /\ \A k \in DOMAIN withdrawn_positions :
        withdrawn_positions[k].status = "Withdrawn"
            /\ k = <<withdrawn_positions[k].user, withdrawn_positions[k].nonce>>

\* the Store's row of a key equals the position the tracker will hold for it
RowMatchesTracker(key) ==
    IsSome(GetPosition(TrackerStateNext, key)) =>
        /\ DbKey(key) \in DOMAIN dbPositions'
        /\ dbPositions'[DbKey(key)] = PositionRow(Unwrap(GetPosition(TrackerStateNext, key)))

\* C36: after every handled log the position row the Store holds for the
\* affected key equals the tracker's position for that key, also when a
\* Store write failed while the log was handled.
C36_StoreRowEqualsMemory ==
    [][IsApplyStep => RowMatchesTracker(LogKey)]_vars

\* C36 for the logs handled before any Store write failed and while no key
\* is in two maps
C36_StoreRowEqualsMemoryWithoutFailure ==
    [][(IsApplyStep /\ faults' = 0 /\ C35_KeyInOneMap) => RowMatchesTracker(LogKey)]_vars

\* the backfill loop is running: between two ranges or inside a batch of it
InBackfill == mode = "backfill" /\ pc \in {"backfill", "position", "event", "commit"}

\* C37: the backfill loop terminates whatever the RPC calls return: a range
\* is queried at most 4 times (retry_count never passes 3), from_block
\* strictly increases whenever the loop leaves a range, the head H read at
\* bootstrap is not read again, the loop ends once from_block reaches H, and
\* a running backfill always reaches tail mode.
C37_BackfillTerminates ==
    /\ [][/\ InBackfill => retry_count <= MAX_RETRIES
          /\ IsRetryStep => retry_count' <= MAX_RETRIES
          /\ IsRangeEnd => from_block' > from_block
          /\ (InBackfill /\ pc' # "boot") => current_block' = current_block
          /\ (InBackfill /\ pc' = "tail") => from_block' >= current_block
          /\ (InBackfill /\ pc' = "backfill") => from_block' < current_block]_vars
    /\ (InBackfill ~> pc = "tail")

\* a backfill of several ranges, one of them failing, has ended and the tail
\* loop has started
C37_Witness ==
    /\ pc = "tail" /\ mode = "backfill"
    /\ from_block >= current_block
    /\ current_block > DEPLOYMENT_BLOCK + MAX_BLOCK_RANGE + 1
    /\ last \in RpcErrors

====
